---- MODULE Spec2Model ----
(***************************************************************************)
(* Model of the authentication glue of the application:                    *)
(*   - the e-mail verification view (src/pages/OtpVerification.tsx),       *)
(*   - the session store and auth gateway (src/contexts/AuthContext.tsx),  *)
(*   - the route guard (src/App.tsx).                                      *)
(* The hosted identity provider is an external collaborator: each request  *)
(* sent to it is answered, in a later step, with success or with an error  *)
(* chosen nondeterministically.                                            *)
(***************************************************************************)
EXTENDS Naturals, FiniteSets, Sequences, Bags

\* ---------------------------------------------------------------- bounds
\* Handler invocations (handleVerify, handleResendOtp) that may be in flight
\* at the same time: the UI's disabled buttons are advisory only.
MaxInFlight == 2

\* Token refreshes the provider performs on one session.
MaxRefresh == 1

\* ------------------------------------------------------------- constants
\* setCooldown(60)
CooldownSeconds == 60

Null == "null"

Emails == {"a@b.com", "c@d.com"}
Codes == {"123456"}
Passwords == {"secret"}
Names == {"Ann"}

Users == {"u1", "u2"}
Protected == {"/initial-weight", "/remaining-weight", "/data", "/food-analysis",
              "/booking"}
Public == {"/", "/login"}

\* Messages of errors reported by the provider; "" is an error object that
\* carries no message, for which the handlers fall back to their own text.
ProviderMessages == {"Token has expired or is invalid", ""}
Ok == "ok"
Responses == {Ok} \cup ProviderMessages

ErrRequired == "Email and verification code are required"
ErrNoSignupData == "Signup data not found. Please try again."
ErrVerifyFallback == "Failed to verify email"
ErrResendEmail == "Email is required to resend verification code"
ErrResendFallback == "Failed to resend verification code"

MsgSent == "Verification code has been sent. Please check your inbox and spam folder."
MsgEnter == "Please enter the verification code sent to your email."
MsgCreated == "Account created successfully! Redirecting to login..."
MsgResent == "Verification code resent! Please check your inbox and spam folder."

VARIABLES
    \* --- browser
    page,        \* the view shown: "signup", "verify" or "login"
    locState,    \* location.state.email of the verification view, or Null
    ls,          \* localStorage: [signupEmail, signupData], Null when absent
    \* --- OtpVerification component state
    otp, email, loading, error, message, cooldown,
    \* --- asynchronous work
    inflight,    \* bag of handler invocations in flight and pending redirect timers
    signupPc,    \* the sign-up form's sendSignUpOTP call: Null or its email
    \* --- history
    completions, \* Completed transitions since the intent was last persisted
    \* --- AuthProvider component state and its environment
    user, session, authLoading,
    providerMounted, checkUserPc, subscribed, getSessionCalls,
    provSession, signOutPending, signInPending,
    lastEvent,   \* the event of the provider's last notification
    \* --- router
    path, navState, guard

viewVars == <<otp, email, loading, error, message, cooldown>>
signupVars == <<page, locState, ls, otp, email, loading, error, message,
                cooldown, inflight, signupPc, completions>>
sessionVars == <<user, session, authLoading, providerMounted, checkUserPc,
                 subscribed, getSessionCalls, provSession, signOutPending,
                 signInPending, lastEvent, path, navState, guard>>
vars == <<signupVars, sessionVars>>

\* ------------------------------------------------------------- data types
NoData == [email |-> Null, password |-> Null, name |-> Null]
NoSession == [user |-> Null, tok |-> 0]

\* An invocation in flight: where it waits (pc: "verifyOtp", "signUp",
\* "resend", or "redirect" for the timer of a finished handleVerify), the
\* request's arguments, and whether its component has been unmounted since.
Call(pc, e, o, pw, n) ==
    [pc |-> pc, email |-> e, otp |-> o, password |-> pw, name |-> n,
     stale |-> FALSE]

Add(b, r) == b (+) SetToBag({r})
Remove(b, r) == b (-) SetToBag({r})
Count(b, r) == IF r \in BagToSet(b) THEN b[r] ELSE 0
Calls == BagToSet(inflight)
\* Room for one more invocation (the model's bound).
Room == BagCardinality(inflight) < MaxInFlight

\* --------------------------------------------- AuthContext: auth gateway
\* sendSignUpOTP: localStorage.setItem('signupEmail', email), before the
\* request to the provider is sent.
StoreSignupEmail(l, e) == [l EXCEPT !.signupEmail = e]

\* verifyOTPAndSignUp: "if (verifyError) throw verifyError" and
\* "if (signUpError) throw signUpError".
Mut_ProviderFailed(res) == FALSE
ProviderFailed(res) == res # Ok

\* verifyOTPAndSignUp: localStorage.removeItem('signupEmail') once the
\* account is created.
ClearSignupEmail(l) == [l EXCEPT !.signupEmail = Null]

\* ------------------------------------------ OtpVerification: the handlers
\* handleVerify: localStorage.removeItem('signupData'); removeItem('signupEmail')
ClearStoredData(l) == [signupEmail |-> Null, signupData |-> NoData]

\* err.message || fallback
ErrText(res, fallback) == IF res # "" THEN res ELSE fallback

\* handleVerify: if (!email || !otp)
Mut_MissingInput(e, o) == e = ""
MissingInput(e, o) == e = "" \/ o = ""

\* handleVerify: if (!signupDataStr)
Mut_IntentMissing(d) == FALSE
IntentMissing(d) == d = NoData

\* handleResendOtp: if (cooldown > 0) return
Mut_ResendBlocked(c) == c > CooldownSeconds
ResendBlocked(c) == c > 0

\* The mount effect: the e-mail comes from location.state, else from
\* localStorage, else the view navigates to the sign-up view.
Effect(st, stored, e, m) ==
    IF st # Null THEN [email |-> st, message |-> MsgSent, nav |-> FALSE]
    ELSE IF stored # Null
         THEN [email |-> stored, message |-> MsgEnter, nav |-> FALSE]
         ELSE [email |-> e, message |-> m, nav |-> TRUE]

\* The component's invocations outlive it: their state setters then do nothing.
\* A resend of an unmounted component has nothing left to do but set state,
\* so it is dropped here.
Unmount(b) ==
    LET keep == {r \in BagToSet(b) : r.pc # "resend"}
        Stale(r) == [r EXCEPT !.stale = TRUE]
    IN [t \in {Stale(r) : r \in keep} |->
           Count(b, t) + Count(b, [t EXCEPT !.stale = FALSE])]

\* useState('') ... useState(0): the state of a component that is not
\* mounted is that of its next mount.
ViewInitial ==
    /\ otp' = "" /\ email' = "" /\ loading' = FALSE
    /\ error' = "" /\ message' = "" /\ cooldown' = 0

\* The verification view is left for the view pg.
LeaveTo(pg, sl) ==
    /\ page' = pg /\ locState' = Null /\ ViewInitial /\ inflight' = Unmount(sl)

\* The view commits new state; with run, the effect runs after the commit
\* (on mount and whenever cooldown changed).
Commit(st, stored, e, o, l, er, m, c, sl, run) ==
    LET eff == Effect(st, stored, e, m) IN
    IF run /\ eff.nav
    THEN LeaveTo("signup", sl)
    ELSE /\ page' = "verify" /\ locState' = st
         /\ email' = (IF run THEN eff.email ELSE e)
         /\ message' = (IF run THEN eff.message ELSE m)
         /\ otp' = o /\ loading' = l /\ error' = er /\ cooldown' = c
         /\ inflight' = sl

\* The view is mounted with location.state.email = st.
Mount(st, stored, sl) == Commit(st, stored, "", "", FALSE, "", "", 0, sl, TRUE)

\* ------------------------------------------------------------------ Init
SignupInit ==
    /\ page = "signup" /\ locState = Null
    /\ ls = [signupEmail |-> Null, signupData |-> NoData]
    /\ otp = "" /\ email = "" /\ loading = FALSE
    /\ error = "" /\ message = "" /\ cooldown = 0
    /\ inflight = EmptyBag
    /\ signupPc = Null
    /\ completions = 0

\* ------------------------------------------------- the sign-up form (Idle)
\* Submitting the form persists the intent and calls sendSignUpOTP.
SignupSubmit(e, pw, n) ==
    /\ UNCHANGED sessionVars
    /\ page = "signup" /\ signupPc = Null
    /\ ls' = StoreSignupEmail(
                [ls EXCEPT !.signupData = [email |-> e, password |-> pw, name |-> n]], e)
    /\ signupPc' = e
    /\ completions' = 0
    /\ UNCHANGED <<page, locState, viewVars, inflight>>

\* The provider answers the form's sendSignUpOTP; on success the form
\* navigates to the verification view with the e-mail as location state.
SignupSendReturn(res) ==
    /\ UNCHANGED sessionVars
    /\ signupPc # Null
    /\ signupPc' = Null
    /\ IF ProviderFailed(res)
       THEN UNCHANGED <<page, locState, viewVars, inflight>>
       ELSE Mount(signupPc, ls.signupEmail, inflight)
    /\ UNCHANGED <<ls, completions>>

\* A full page load of the view pg: every pending callback of the old page
\* is gone, localStorage stays.
Load(pg) ==
    /\ UNCHANGED sessionVars
    /\ signupPc' = Null
    /\ IF pg = "verify"
       THEN Mount(Null, ls.signupEmail, EmptyBag)
       ELSE /\ page' = pg /\ locState' = Null /\ ViewInitial
            /\ inflight' = EmptyBag
    /\ UNCHANGED <<ls, completions>>

\* ------------------------------------------------- the verification view
\* onChange of the two inputs.
SetOtp(c) ==
    /\ UNCHANGED sessionVars
    /\ page = "verify" /\ otp' = c
    /\ UNCHANGED <<page, locState, ls, email, loading, error, message, cooldown,
                   inflight, signupPc, completions>>

SetEmail(e) ==
    /\ UNCHANGED sessionVars
    /\ page = "verify" /\ email' = e
    /\ UNCHANGED <<page, locState, ls, otp, loading, error, message, cooldown,
                   inflight, signupPc, completions>>

\* handleVerify, up to its first await: the error and loading state it
\* leaves, and whether it calls verifyOTPAndSignUp.
HandleVerifyStep(e, o, d, l) ==
    IF MissingInput(e, o)
    THEN [error |-> ErrRequired, loading |-> l, call |-> FALSE]
    ELSE IF IntentMissing(d)
    THEN [error |-> ErrNoSignupData, loading |-> FALSE, call |-> FALSE]
    ELSE [error |-> "", loading |-> TRUE, call |-> TRUE]

HandleVerify ==
    /\ UNCHANGED sessionVars
    /\ page = "verify"
    /\ LET r == HandleVerifyStep(email, otp, ls.signupData, loading) IN
       /\ error' = r.error
       /\ loading' = r.loading
       /\ IF r.call
          THEN /\ Room
               /\ inflight' = Add(inflight,
                                  Call("verifyOtp", email, otp,
                                       ls.signupData.password,
                                       ls.signupData.name))
          ELSE UNCHANGED inflight
    /\ UNCHANGED <<page, locState, ls, otp, email, message, cooldown,
                   signupPc, completions>>

\* catch (err) { setError(...) } finally { setLoading(false) } of a handler
\* whose provider call failed with res.
Mut_HandlerFailed(r, res, fallback) ==
    /\ inflight' = Remove(inflight, r)
    /\ IF r.stale
       THEN UNCHANGED <<error, loading>>
       ELSE error' = ErrText(res, fallback) /\ UNCHANGED loading
HandlerFailed(r, res, fallback) ==
    /\ inflight' = Remove(inflight, r)
    /\ IF r.stale
       THEN UNCHANGED <<error, loading>>
       ELSE error' = ErrText(res, fallback) /\ loading' = FALSE

\* verifyOTPAndSignUp: the provider answers verifyOtp; on success the
\* account-creation request is sent.
VerifyOtpReturn(r, res) ==
    /\ UNCHANGED sessionVars
    /\ r \in Calls /\ r.pc = "verifyOtp"
    /\ IF ProviderFailed(res)
       THEN HandlerFailed(r, res, ErrVerifyFallback)
       ELSE /\ inflight' = Add(Remove(inflight, r), [r EXCEPT !.pc = "signUp"])
            /\ UNCHANGED <<error, loading>>
    /\ UNCHANGED <<page, locState, ls, otp, email, message, cooldown,
                   signupPc, completions>>

\* verifyOTPAndSignUp: the provider answers signUp; on success handleVerify
\* shows the success message, clears the stored data and schedules the
\* redirect.
SignUpReturn(r, res) ==
    /\ UNCHANGED sessionVars
    /\ r \in Calls /\ r.pc = "signUp"
    /\ IF ProviderFailed(res)
       THEN /\ HandlerFailed(r, res, ErrVerifyFallback)
            /\ UNCHANGED <<ls, message, completions>>
       ELSE /\ ls' = ClearStoredData(ClearSignupEmail(ls))
            /\ inflight' = Add(Remove(inflight, r), [r EXCEPT !.pc = "redirect"])
            /\ completions' = completions + 1
            /\ IF r.stale
               THEN UNCHANGED <<message, loading>>
               ELSE message' = MsgCreated /\ loading' = FALSE
            /\ UNCHANGED error
    /\ UNCHANGED <<page, locState, otp, email, cooldown, signupPc>>

\* setTimeout(() => navigate('/login', ...), 2000) fires.
RedirectFire(r) ==
    /\ UNCHANGED sessionVars
    /\ r \in Calls /\ r.pc = "redirect"
    /\ IF page = "verify"
       THEN LeaveTo("login", Remove(inflight, r))
       ELSE /\ page' = "login"
            /\ inflight' = Remove(inflight, r)
            /\ UNCHANGED <<locState, viewVars>>
    /\ UNCHANGED <<ls, signupPc, completions>>

\* handleResendOtp, up to its await: sendSignUpOTP stores the e-mail and
\* sends the request.
HandleResendStep(c, e, er, l, st) ==
    IF ResendBlocked(c)
    THEN [error |-> er, loading |-> l, ls |-> st, call |-> FALSE]
    ELSE IF e = ""
    THEN [error |-> ErrResendEmail, loading |-> l, ls |-> st, call |-> FALSE]
    ELSE [error |-> "", loading |-> TRUE, ls |-> StoreSignupEmail(st, e),
          call |-> TRUE]

HandleResendOtp ==
    /\ UNCHANGED sessionVars
    /\ page = "verify"
    /\ LET r == HandleResendStep(cooldown, email, error, loading, ls) IN
       /\ error' = r.error
       /\ loading' = r.loading
       /\ ls' = r.ls
       /\ IF r.call
          THEN /\ Room
               /\ inflight' = Add(inflight, Call("resend", email, "", "", ""))
          ELSE UNCHANGED inflight
    /\ UNCHANGED <<page, locState, otp, email, message, cooldown,
                   signupPc, completions>>

\* The success path of handleResendOtp after the await: setMessage(...);
\* setCooldown(60).
Mut_ResendSucceeded(c) == [message |-> MsgResent, cooldown |-> c]
ResendSucceeded(c) == [message |-> MsgResent, cooldown |-> CooldownSeconds]

\* The provider answers the resend's sendSignUpOTP.
ResendReturn(r, res) ==
    /\ UNCHANGED sessionVars
    /\ r \in Calls /\ r.pc = "resend"
    /\ IF r.stale
       THEN /\ inflight' = Remove(inflight, r)
            /\ UNCHANGED <<page, locState, viewVars>>
       ELSE IF ProviderFailed(res)
       THEN /\ HandlerFailed(r, res, ErrResendFallback)
            /\ UNCHANGED <<page, locState, otp, email, message, cooldown>>
       ELSE Commit(locState, ls.signupEmail, email, otp, FALSE, error,
                   ResendSucceeded(cooldown).message,
                   ResendSucceeded(cooldown).cooldown,
                   Remove(inflight, r),
                   cooldown # ResendSucceeded(cooldown).cooldown)
    /\ UNCHANGED <<ls, signupPc, completions>>

\* The timer's callback: setCooldown(cooldown - 1), with the cooldown of the
\* render that set the timer.
Mut_TimerFires(c) == IF c > 1 THEN c - 2 ELSE 0
TimerFires(c) == c - 1

\* The effect's one-second timer fires.
Tick ==
    /\ UNCHANGED sessionVars
    /\ page = "verify" /\ cooldown > 0
    /\ Commit(locState, ls.signupEmail, email, otp, loading, error, message,
              TimerFires(cooldown), inflight, TRUE)
    /\ UNCHANGED <<ls, signupPc, completions>>

\* "Start over with a different email": navigate('/signup').
StartOver ==
    /\ UNCHANGED sessionVars
    /\ page = "verify"
    /\ LeaveTo("signup", inflight)
    /\ UNCHANGED <<ls, signupPc, completions>>

Next ==
    \/ \E e \in Emails, pw \in Passwords, n \in Names : SignupSubmit(e, pw, n)
    \/ \E res \in Responses : SignupSendReturn(res)
    \/ \E pg \in {"signup", "verify"} : Load(pg)
    \/ \E c \in Codes \cup {""} : SetOtp(c)
    \/ \E e \in Emails \cup {""} : SetEmail(e)
    \/ HandleVerify
    \/ \E r \in Calls, res \in Responses : VerifyOtpReturn(r, res)
    \/ \E r \in Calls, res \in Responses : SignUpReturn(r, res)
    \/ \E r \in Calls : RedirectFire(r)
    \/ HandleResendOtp
    \/ \E r \in Calls, res \in Responses : ResendReturn(r, res)
    \/ Tick
    \/ StartOver

\* The view's controls as rendered: the form's inputs are required and its
\* submit button is disabled={loading}; the resend button is
\* disabled={cooldown > 0 || loading}.
SubmitEnabled == ~loading /\ email # "" /\ otp # ""
ResendEnabled == ~(cooldown > 0 \/ loading)
ClickVerify == SubmitEnabled /\ HandleVerify
ClickResend == ResendEnabled /\ HandleResendOtp

\* The view driven through its rendered controls.
UiNext ==
    \/ \E e \in Emails, pw \in Passwords, n \in Names : SignupSubmit(e, pw, n)
    \/ \E res \in Responses : SignupSendReturn(res)
    \/ \E pg \in {"signup", "verify"} : Load(pg)
    \/ \E c \in Codes \cup {""} : SetOtp(c)
    \/ \E e \in Emails \cup {""} : SetEmail(e)
    \/ ClickVerify
    \/ \E r \in Calls, res \in Responses : VerifyOtpReturn(r, res)
    \/ \E r \in Calls, res \in Responses : SignUpReturn(r, res)
    \/ \E r \in Calls : RedirectFire(r)
    \/ ClickResend
    \/ \E r \in Calls, res \in Responses : ResendReturn(r, res)
    \/ Tick
    \/ StartOver

\* ------------------------------------------------ AuthContext: AuthProvider
\* session?.user || null
UserOf(sess) == IF sess = NoSession THEN Null ELSE sess.user

\* The onAuthStateChange callback: setSession(session);
\* setUser(session?.user || null).
Mut_AuthCallback(cur, sess) ==
    IF sess = NoSession THEN cur ELSE [session |-> sess, user |-> UserOf(sess)]
AuthCallback(cur, sess) == [session |-> sess, user |-> UserOf(sess)]

\* checkUser's try block: what getSession's outcome leaves in the store.
\* "session": { data: { session } } with the provider's session;
\* "error": { data: { session: null }, error }; "throws": the call rejects.
LookupOutcomes == {"session", "error", "throws"}
Mut_AfterLookup(cur, out, sess) ==
    IF out = "throws" THEN cur
    ELSE IF out = "error" THEN AuthCallback(cur, NoSession)
    ELSE [session |-> sess, user |-> cur.user]
AfterLookup(cur, out, sess) ==
    IF out = "throws" THEN cur
    ELSE IF out = "error" THEN AuthCallback(cur, NoSession)
    ELSE AuthCallback(cur, sess)

\* checkUser's finally block: setLoading(false).
Mut_LoadingAfterLookup(out, l) == IF out = "throws" THEN l ELSE FALSE
LoadingAfterLookup(out, l) == FALSE

\* ------------------------------------------------------ App: ProtectedRoute
Mut_ProtectedRoute(u, l) == IF l THEN "pending" ELSE "children"
Mut_ProtectedRouteNoWait(u, l) == IF u = Null THEN "redirect" ELSE "children"
ProtectedRoute(u, l) ==
    IF l THEN "pending"
    ELSE IF u = Null THEN "redirect"
    ELSE "children"

\* The router shows the route p (navigation state st) with the store's
\* user u and loading flag l: a protected route is rendered through
\* ProtectedRoute, whose <Navigate to="/login" state={{ from: location }}>
\* replaces the location.
Mut_Route(p, st, u, l) ==
    IF p \in Protected
    THEN LET r == ProtectedRoute(u, l) IN
         /\ guard' = [target |-> p, result |-> r, seq |-> 1 - guard.seq]
         /\ IF r = "redirect"
            THEN path' = "/login" /\ navState' = st
            ELSE path' = p /\ navState' = st
    ELSE path' = p /\ navState' = st /\ guard' = guard
Route(p, st, u, l) ==
    IF p \in Protected
    THEN LET r == ProtectedRoute(u, l) IN
         /\ guard' = [target |-> p, result |-> r, seq |-> 1 - guard.seq]
         /\ IF r = "redirect"
            THEN path' = "/login" /\ navState' = p
            ELSE path' = p /\ navState' = st
    ELSE path' = p /\ navState' = st /\ guard' = guard

\* The store's setters: they do nothing once the provider is unmounted, and
\* a change re-renders the consumers of the context.
StoreChange(u, s, l) ==
    IF providerMounted /\ <<u, s, l>> # <<user, session, authLoading>>
    THEN /\ user' = u /\ session' = s /\ authLoading' = l
         /\ Route(path, navState, u, l)
    ELSE UNCHANGED <<user, session, authLoading, path, navState, guard>>

\* The provider tells its listeners of the event ev with the session sess.
Notify(ev, sess) ==
    /\ lastEvent' = ev
    /\ IF subscribed
       THEN LET c == AuthCallback([session |-> session, user |-> user], sess)
            IN StoreChange(c.user, c.session, authLoading)
       ELSE UNCHANGED <<user, session, authLoading, path, navState, guard>>

SessionInit ==
    /\ user = Null /\ session = NoSession /\ authLoading = TRUE
    /\ providerMounted = TRUE /\ checkUserPc = "getSession"
    /\ subscribed = FALSE /\ getSessionCalls = 1
    /\ provSession \in {NoSession} \cup [user : Users, tok : {0}]
    /\ signOutPending = 0 /\ signInPending = 0 /\ lastEvent = "none"
    /\ path = "/" /\ navState = Null
    /\ guard = [target |-> Null, result |-> "none", seq |-> 0]

\* checkUser: getSession settles, then the auth-change listener is
\* registered.
GetSessionReturn(out) ==
    /\ UNCHANGED signupVars
    /\ checkUserPc = "getSession"
    /\ checkUserPc' = "done"
    /\ LET c == AfterLookup([session |-> session, user |-> user], out, provSession)
       IN StoreChange(c.user, c.session, LoadingAfterLookup(out, authLoading))
    /\ subscribed' = TRUE
    /\ UNCHANGED <<lastEvent, providerMounted, getSessionCalls, provSession,
                   signOutPending, signInPending>>

\* The effect returns nothing (checkUser's promise is dropped), so
\* unmounting the provider runs no cleanup.
Teardown ==
    /\ UNCHANGED signupVars
    /\ providerMounted
    /\ providerMounted' = FALSE
    /\ UNCHANGED <<lastEvent, user, session, authLoading, checkUserPc, subscribed,
                   getSessionCalls, provSession, signOutPending,
                   signInPending, path, navState, guard>>

\* signIn: supabase.auth.signInWithPassword is called.
SignInCall ==
    /\ UNCHANGED signupVars
    /\ providerMounted /\ signInPending < MaxInFlight
    /\ signInPending' = signInPending + 1
    /\ UNCHANGED <<lastEvent, user, session, authLoading, providerMounted, checkUserPc,
                   subscribed, getSessionCalls, provSession, signOutPending,
                   path, navState, guard>>

\* The provider answers a signIn: on success it holds the session of u and
\* tells its listeners.
SignInReturn(u, ok) ==
    /\ UNCHANGED signupVars
    /\ signInPending > 0
    /\ signInPending' = signInPending - 1
    /\ IF ok
       THEN /\ provSession' = [user |-> u, tok |-> 0]
            /\ Notify("SIGNED_IN", provSession')
       ELSE UNCHANGED <<provSession, lastEvent, user, session, authLoading, path,
                        navState, guard>>
    /\ UNCHANGED <<providerMounted, checkUserPc, subscribed, getSessionCalls,
                   signOutPending>>

\* signOut: supabase.auth.signOut is called.
SignOutCall ==
    /\ UNCHANGED signupVars
    /\ providerMounted /\ signOutPending < MaxInFlight
    /\ signOutPending' = signOutPending + 1
    /\ UNCHANGED <<lastEvent, user, session, authLoading, providerMounted, checkUserPc,
                   subscribed, getSessionCalls, provSession, signInPending,
                   path, navState, guard>>

\* The provider answers a signOut: on success it holds no session and tells
\* its listeners before the call returns.
SignOutReturn(ok) ==
    /\ UNCHANGED signupVars
    /\ signOutPending > 0
    /\ signOutPending' = signOutPending - 1
    /\ IF ok
       THEN /\ provSession' = NoSession
            /\ Notify("SIGNED_OUT", NoSession)
       ELSE UNCHANGED <<provSession, lastEvent, user, session, authLoading, path,
                        navState, guard>>
    /\ UNCHANGED <<providerMounted, checkUserPc, subscribed, getSessionCalls,
                   signInPending>>

\* The provider refreshes the session's tokens and tells its listeners.
TokenRefreshed ==
    /\ UNCHANGED signupVars
    /\ provSession # NoSession /\ provSession.tok < MaxRefresh
    /\ provSession' = [provSession EXCEPT !.tok = @ + 1]
    /\ Notify("TOKEN_REFRESHED", provSession')
    /\ UNCHANGED <<providerMounted, checkUserPc, subscribed, getSessionCalls,
                   signOutPending, signInPending>>

\* The user opens the route p.
Navigate(p) ==
    /\ UNCHANGED signupVars
    /\ providerMounted
    /\ Route(p, Null, user, authLoading)
    /\ UNCHANGED <<lastEvent, user, session, authLoading, providerMounted, checkUserPc,
                   subscribed, getSessionCalls, provSession, signOutPending,
                   signInPending>>

SessionNext ==
    \/ \E out \in LookupOutcomes : GetSessionReturn(out)
    \/ Teardown
    \/ SignInCall
    \/ \E u \in Users, ok \in BOOLEAN : SignInReturn(u, ok)
    \/ SignOutCall
    \/ \E ok \in BOOLEAN : SignOutReturn(ok)
    \/ TokenRefreshed
    \/ \E p \in Protected \cup Public : Navigate(p)

Init == SignupInit /\ SessionInit /\ provSession = NoSession

SessionStart == SignupInit /\ SessionInit


Spec == Init /\ [][Next]_vars

SessionSpec == SessionStart /\ [][SessionNext]_vars

\* The browser fires a timer that stays set: while the view is mounted with
\* cooldown > 0 the effect's timer is pending, and it is cleared only by the
\* effect's own cleanup (a change of cooldown, or the unmount).
LiveSpec == Init /\ [][UiNext]_vars /\ WF_vars(Tick)

\* =================================================================== claims
\* A request of kind pc is sent to the provider in this step.
NumCalls(b, pc) ==
    BagCardinality([r \in {x \in BagToSet(b) : x.pc = pc} |-> b[r]])
Issued(pc) == NumCalls(inflight', pc) > NumCalls(inflight, pc)

StoredKeysAbsent(l) == l.signupEmail = Null /\ l.signupData = NoData

\* C1, in every state: handleResendOtp invoked with cooldown > 0 calls
\* nothing and sets nothing.
C1_RejectedResendIsInert ==
    (page = "verify" /\ cooldown > 0) =>
        LET r == HandleResendStep(cooldown, email, error, loading, ls) IN
        ~r.call /\ r.error = error /\ r.loading = loading /\ r.ls = ls
\* C1: a resend attempt made while the cooldown is greater than 0 sends no
\* sendSignUpOTP request and leaves the cooldown, the error, the message and
\* both localStorage keys as they were; a resend request is only ever sent
\* from a state with cooldown = 0.
C1_ResendOnlyAtZeroCooldown ==
    /\ []C1_RejectedResendIsInert
    /\ [][Issued("resend") => cooldown = 0]_vars
    /\ [][(HandleResendOtp /\ cooldown > 0) =>
            UNCHANGED <<cooldown, error, message, ls, inflight>>]_vars
C1_Witness == page = "verify" /\ cooldown > 0 /\ email # "" /\ ~loading

\* C2: right after the sign-up form's sendSignUpOTP succeeded and the
\* verification view opened, the cooldown is 60 and a resend attempt is
\* rejected locally, without a request to the provider.
C2_InitialSendStartsCooldown ==
    [][(signupPc # Null /\ page' = "verify") =>
          /\ cooldown' = CooldownSeconds
          /\ ~HandleResendStep(cooldown', email', error', loading', ls').call]_vars

\* C3 as claimed: a code submission made while no signupData is stored ends
\* with the missing-intent message and no verifyOTPAndSignUp call, whatever
\* e-mail and code are entered.
C3_MissingIntentAlwaysPreconditionError ==
    (page = "verify" /\ ls.signupData = NoData) =>
        LET r == HandleVerifyStep(email, otp, ls.signupData, loading) IN
        r.error = ErrNoSignupData /\ ~r.loading /\ ~r.call
\* C3, in every state: what handleVerify does when no signupData is stored.
C3_MissingIntentOutcome ==
    (page = "verify" /\ ls.signupData = NoData) =>
        LET r == HandleVerifyStep(email, otp, ls.signupData, loading) IN
        /\ ~r.call
        /\ IF email = "" \/ otp = ""
           THEN r.error = ErrRequired
           ELSE r.error = ErrNoSignupData /\ ~r.loading
\* C3 as amended: a code submission made while no signupData is stored never
\* calls verifyOTPAndSignUp and changes no localStorage key; with a non-empty
\* e-mail and code it ends with the missing-intent message and loading
\* false, with an empty e-mail or code it ends with the required-fields
\* message.
C3_MissingIntentNeverReachesProvider ==
    /\ []C3_MissingIntentOutcome
    /\ [][(HandleVerify /\ ls.signupData = NoData) =>
            /\ inflight' = inflight /\ ls' = ls
            /\ error' \in {ErrNoSignupData, ErrRequired}
            /\ (error' = ErrRequired <=> (email = "" \/ otp = ""))
            /\ (error' = ErrNoSignupData => ~loading')]_vars
C3_Witness ==
    /\ page = "verify" /\ ls.signupData = NoData
    /\ email # "" /\ otp # "" /\ error = ErrNoSignupData /\ ~loading

\* C4: over any sequence of code submissions, overlapping ones included, at
\* most one Completed transition (success message, stored keys cleared,
\* redirect scheduled) happens per signup.
C4_CompletedAtMostOncePerSignup == completions <= 1

\* C7: in verifyOTPAndSignUp a signUp request is sent only in the step in
\* which the verifyOtp request of the same call returned without error; a
\* verifyOtp error ends the call with that error, with no signUp request and
\* with localStorage (signupEmail included) untouched.
C7_VerifyPrecedesSignUp ==
    [][/\ Issued("signUp") =>
            \E r \in Calls :
                /\ r.pc = "verifyOtp"
                /\ VerifyOtpReturn(r, Ok)
                /\ Count(inflight', [r EXCEPT !.pc = "signUp"])
                      > Count(inflight, [r EXCEPT !.pc = "signUp"])
       /\ \A r \in Calls, res \in ProviderMessages :
            VerifyOtpReturn(r, res) =>
                /\ ~Issued("signUp")
                /\ ls' = ls
                /\ Count(inflight', r) < Count(inflight, r)
                /\ BagCardinality(inflight') < BagCardinality(inflight)
                /\ (~r.stale => error' = ErrText(res, ErrVerifyFallback))]_vars
C7_Witness ==
    /\ \E r \in Calls : r.pc = "signUp"
    /\ ls.signupEmail # Null

\* C10: after the user chose "Start over with a different email", neither
\* localStorage key is present.
C10_StartOverClearsStoredKeys ==
    [][StartOver => StoredKeysAbsent(ls')]_vars

\* C5, in every state: a protected view is shown, once loading is over, only
\* with a non-null user and as the guard's children.
C5_GuardShowsChildren ==
    (providerMounted /\ path \in Protected /\ ~authLoading) =>
        /\ user # Null
        /\ guard.target = path /\ guard.result = "children"
\* C5: once the initial session check has resolved, every evaluation of the
\* route guard renders the protected children if and only if the store's
\* user is non-null and otherwise redirects to /login; a protected view is
\* never shown with a null user.
C5_GuardGrantsIffIdentity ==
    /\ []C5_GuardShowsChildren
    /\ [][(guard'.seq # guard.seq /\ ~authLoading') =>
            /\ guard'.target \in Protected
            /\ guard'.result = "children" <=> user' # Null
            /\ guard'.result = "redirect" <=> user' = Null
            /\ guard'.result = "redirect" => path' = "/login"
            /\ guard'.result = "children" => path' = guard'.target]_vars
C5_Witness ==
    /\ path \in Protected /\ ~authLoading /\ user # Null
    /\ guard.result = "children"

\* C6: when a signOut completes successfully, the store's user and session
\* are both null, so that the route guard redirects every protected view to
\* /login (the view shown, if protected, included).
C6_SignOutClearsIdentity ==
    [][(SignOutReturn(TRUE) /\ providerMounted) =>
          /\ user' = Null /\ session' = NoSession
          /\ ~authLoading' => ProtectedRoute(user', authLoading') = "redirect"
          /\ path' \notin Protected \/ authLoading']_vars
C6_Witness ==
    /\ providerMounted /\ ~authLoading /\ subscribed
    /\ lastEvent = "SIGNED_OUT" /\ signOutPending = 0
    /\ user = Null /\ session = NoSession /\ provSession = NoSession
    /\ guard.result = "redirect" /\ path = "/login"

\* C8: once the AuthProvider has been torn down, its auth-change listener
\* is no longer subscribed.
C8_UnsubscribedAfterTeardown == ~providerMounted => ~subscribed

\* C9, in every state: loading is true exactly while the lookup is pending,
\* getSession has been called once, and the listener is registered once the
\* lookup has settled.
C9_LoadingUntilLookupSettles ==
    /\ providerMounted => (authLoading <=> checkUserPc = "getSession")
    /\ getSessionCalls = 1
    /\ checkUserPc = "done" => subscribed
\* C9: the store's loading flag is true exactly until the initial session
\* lookup settles and false ever after; a lookup that fails leaves loading
\* false, user and session null and the listener registered, and getSession
\* is called once only.
C9_LoadingAndFailedLookup ==
    /\ []C9_LoadingUntilLookupSettles
    /\ [][~authLoading => ~authLoading']_vars
    /\ [][\A out \in {"error", "throws"} :
            (GetSessionReturn(out) /\ providerMounted) =>
                /\ ~authLoading' /\ user' = Null /\ session' = NoSession
                /\ subscribed' /\ checkUserPc' = "done"
                /\ getSessionCalls' = getSessionCalls]_vars
C9_Witness ==
    /\ providerMounted /\ checkUserPc = "done" /\ ~authLoading
    /\ provSession # NoSession /\ user = Null /\ session = NoSession
    /\ subscribed

\* C11: a provider error during code verification or resend is caught by the
\* handler of the mounted view: the view stays open with loading false and a
\* non-empty error (the provider's message, or the handler's own text when
\* the error carries none), localStorage (signupData included) is as it was,
\* no redirect is scheduled, and a new submission is accepted again.
C11_ProviderErrorReturnsToAwaitingCode ==
    [][\A r \in Calls, res \in ProviderMessages :
          (/\ ~r.stale
           /\ \/ VerifyOtpReturn(r, res)
              \/ SignUpReturn(r, res)
              \/ ResendReturn(r, res)) =>
              /\ page' = "verify"
              /\ ~loading'
              /\ error' # ""
              /\ res # "" => error' = res
              /\ error' = ErrText(res, IF r.pc = "resend" THEN ErrResendFallback
                                       ELSE ErrVerifyFallback)
              /\ ls' = ls
              /\ ~Issued("redirect") /\ ~Issued("signUp")
              /\ BagCardinality(inflight') < BagCardinality(inflight)
              /\ (ls'.signupData # NoData /\ email' # "" /\ otp' # "") =>
                    HandleVerifyStep(email', otp', ls'.signupData, loading').call
              /\ <<email', otp', message', cooldown', completions'>>
                    = <<email, otp, message, cooldown, completions>>]_vars
C11_Witness ==
    /\ page = "verify" /\ ~loading
    /\ error \in ProviderMessages \ {""}
    /\ ls.signupData # NoData
    /\ inflight = EmptyBag

\* C12 (parts): a resend that passes the cooldown guard calls sendSignUpOTP
\* with the view's email, which stores that email under signupEmail and
\* leaves signupData alone; its return changes no localStorage key; on
\* success the view that is still open has a cooldown of 60.
C12_ResendSendsViewEmail ==
    [][(HandleResendOtp /\ Issued("resend")) =>
          /\ cooldown = 0
          /\ \E r \in BagToSet(inflight') :
                /\ CopiesIn(r, inflight') > CopiesIn(r, inflight)
                /\ r.pc = "resend" /\ r.email = email /\ ~r.stale
          /\ ls' = [ls EXCEPT !.signupEmail = email]
          /\ cooldown' = 0]_vars
C12_ResendReturnKeepsIntent ==
    [][\A r \in Calls, res \in Responses :
          (ResendReturn(r, res) /\ ~r.stale) =>
              /\ ls' = ls
              /\ (res = Ok /\ page' = "verify") =>
                    cooldown' = CooldownSeconds]_vars

\* C12 as stated: ..., and a resend that fails leaves the cooldown at 0.
C12_FailedResendLeavesCooldownAtZero ==
    [][\A r \in Calls, res \in ProviderMessages :
          (ResendReturn(r, res) /\ ~r.stale) =>
              /\ ls' = ls
              /\ cooldown' = 0]_vars

\* C12 (amended): as the parts above, and a resend that fails leaves the
\* cooldown as it was: 0, unless another resend issued while the cooldown
\* was 0 has succeeded in the meantime.
C12_FailedResendLeavesCooldownUnchanged ==
    [][\A r \in Calls, res \in ProviderMessages :
          (ResendReturn(r, res) /\ ~r.stale) =>
              /\ cooldown' = cooldown
              /\ page' = "verify"]_vars
C12_ResendFrame ==
    /\ C12_ResendSendsViewEmail
    /\ C12_ResendReturnKeepsIntent
    /\ C12_FailedResendLeavesCooldownUnchanged
C12_Witness ==
    /\ page = "verify"
    /\ cooldown = CooldownSeconds /\ email # ""
    /\ ls.signupData # NoData
    /\ NumCalls(inflight, "resend") = 0

\* C13: while the session store is loading, the route guard shows its
\* placeholder: it neither renders the protected children nor redirects,
\* whatever the identity is; it redirects only when loading is false and the
\* identity is null.
C13_GuardWaitsWhileLoading ==
    /\ \A u \in Users \cup {Null} : ProtectedRoute(u, TRUE) = "pending"
    /\ [](providerMounted /\ authLoading /\ path \in Protected =>
             guard.target = path /\ guard.result = "pending")
    /\ [][guard'.seq # guard.seq =>
             /\ authLoading' =>
                   /\ guard'.result = "pending"
                   /\ path' = guard'.target
             /\ guard'.result = "redirect" => ~authLoading' /\ user' = Null
             /\ guard'.result = "children" => ~authLoading']_vars
C13_Witness ==
    /\ providerMounted /\ authLoading
    /\ path \in Protected
    /\ guard.target = path /\ guard.result = "pending"

\* C15: every redirect issued by the route guard goes to the sign-in view
\* and carries, as navigation state, the protected location that was
\* requested: the route just opened, or the route on show when the store
\* changed.
C15_RedirectCarriesRequestedLocation ==
    [][(guard'.seq # guard.seq /\ guard'.result = "redirect") =>
          /\ path' = "/login"
          /\ guard'.target \in Protected
          /\ navState' = guard'.target
          /\ \A p \in Protected \cup Public : Navigate(p) => navState' = p
          /\ (~ \E p \in Protected \cup Public : Navigate(p)) =>
                navState' = path]_vars
C15_Witness ==
    /\ guard.result = "redirect"
    /\ path = "/login"
    /\ navState = guard.target /\ navState \in Protected

\* C16: in every reachable state of the session store, user is null exactly
\* when session is null, and otherwise user is the session's user.
C16_UserMatchesSession ==
    /\ user = Null <=> session = NoSession
    /\ session # NoSession => user = session.user
C16_Witness ==
    /\ checkUserPc = "done" /\ lastEvent = "TOKEN_REFRESHED"
    /\ session # NoSession /\ session.tok > 0
    /\ user = session.user

\* C14: while the verification view stays mounted, the cooldown changes only
\* by a tick, which takes exactly 1 off a cooldown above 0, or by a
\* successful resend, which sets it to 60; it is never decremented at 0.
\* With ticks that keep firing, a cooldown above 0 reaches 0, and at 0 a
\* resend with an email is accepted again.
C14_TickDecrementsByOne ==
    [][Tick => /\ cooldown > 0
               /\ page' = "verify" => cooldown' = cooldown - 1]_vars
C14_CooldownChanges ==
    [][(page = "verify" /\ page' = "verify"
          /\ ~ \E pg \in {"signup", "verify"} : Load(pg)) =>
          /\ cooldown' \in {cooldown, cooldown - 1, CooldownSeconds}
          /\ cooldown' = cooldown - 1 => cooldown > 0 /\ Tick
          /\ cooldown' >= 0]_vars
C14_ResendPermittedAtZero ==
    (page = "verify" /\ cooldown = 0 /\ email # "") =>
        HandleResendStep(cooldown, email, error, loading, ls).call
C14_CooldownRunsOut ==
    /\ C14_TickDecrementsByOne
    /\ C14_CooldownChanges
    /\ []C14_ResendPermittedAtZero
    /\ [][\A r \in Calls : (ResendReturn(r, Ok) /\ ~r.stale /\ page' = "verify")
              => cooldown' = CooldownSeconds]_vars
    /\ (page = "verify" /\ cooldown > 0) ~> (cooldown = 0)
C14_Witness ==
    /\ page = "verify" /\ cooldown = 1
    /\ inflight = EmptyBag

\* C17: after a successful verification the view's own navigation is the
\* scheduled one to sign-in: while the redirect timer of the mounted view is
\* pending, the mount effect that a cooldown tick re-runs does not navigate
\* to the sign-up view.
C17_NoSignupNavigationBeforeRedirect ==
    (/\ page = "verify"
     /\ \E r \in Calls : r.pc = "redirect" /\ ~r.stale
     /\ cooldown > 0) =>
        ~Effect(locState, ls.signupEmail, email, message).nav

\* C18 (parts): handleVerify with an empty email or code sets its local
\* error and stops: no provider call, loading and localStorage unchanged.
C18_VerifyNeedsEmailAndCode ==
    (page = "verify" /\ (email = "" \/ otp = "")) =>
        LET v == HandleVerifyStep(email, otp, ls.signupData, loading) IN
        v.error = ErrRequired /\ ~v.call /\ v.loading = loading
C18_VerifyRejectionIsLocal ==
    [][(HandleVerify /\ (email = "" \/ otp = "")) =>
          /\ error' = ErrRequired
          /\ ls' = ls /\ inflight' = inflight]_vars
\* No request in flight carries an empty email, and none of the verification
\* requests an empty code.
C18_NoEmptyRequest ==
    \A r \in Calls :
        /\ r.email # ""
        /\ r.pc \in {"verifyOtp", "signUp"} => r.otp # ""
\* The view loaded with neither location.state.email nor a stored
\* signupEmail goes to the sign-up view; a view that stays open has its email
\* from one of the two.
C18_EntryWithoutEmailRedirects ==
    [][(\E pg \in {"signup", "verify"} : Load(pg)) =>
          /\ (Load("verify") /\ ls.signupEmail = Null) => page' = "signup"
          /\ page' = "verify" => email' = ls.signupEmail /\ email' # Null]_vars

\* C18 as stated: handleResendOtp with an empty email sets its local error
\* and stops, without a provider call and without changing localStorage.
C18_ResendWithoutEmailSetsError ==
    (page = "verify" /\ email = "") =>
        LET r == HandleResendStep(cooldown, email, error, loading, ls) IN
        r.error = ErrResendEmail /\ ~r.call /\ r.ls = ls

\* C18 (amended): handleResendOtp with an empty email stops without a
\* provider call and without changing localStorage; it sets its local error
\* when the cooldown is 0, and sets nothing while the cooldown is running.
C18_ResendWithoutEmailStops ==
    (page = "verify" /\ email = "") =>
        LET r == HandleResendStep(cooldown, email, error, loading, ls) IN
        /\ ~r.call /\ r.ls = ls /\ r.loading = loading
        /\ cooldown = 0 => r.error = ErrResendEmail
        /\ cooldown > 0 => r.error = error
C18_NoProviderCallWithoutInputs ==
    /\ []C18_VerifyNeedsEmailAndCode
    /\ C18_VerifyRejectionIsLocal
    /\ []C18_NoEmptyRequest
    /\ C18_EntryWithoutEmailRedirects
    /\ []C18_ResendWithoutEmailStops
C18_Witness ==
    /\ page = "verify" /\ email = ""
    /\ error = ErrResendEmail /\ ~loading
    /\ cooldown = 0 /\ inflight = EmptyBag

====
